---- MODULE Spec2Model ----
(***************************************************************************)
(* The booking application of src/src/App.tsx: the auth provider, the      *)
(* booking helpers, the Login, Book and Profile pages and the route guard, *)
(* over a model of the hosted backend the code calls (auth session,        *)
(* tables "profiles" and "bookings").                                      *)
(*                                                                         *)
(* Execution model.  JavaScript runs each handler to completion; a state   *)
(* update and the render pass it causes are one step.  The passive effects *)
(* (useEffect, <Navigate>) of a render pass run in the step that follows   *)
(* it (action Effects), before any other event is handled.  Every awaited  *)
(* backend call is split in the step that issues it and the step in which  *)
(* it completes and its continuation runs.  The auth client invokes the    *)
(* onAuthStateChange subscriber as part of the auth operation that changes *)
(* the session, and getSession resolves to the session held at that time.  *)
(***************************************************************************)
EXTENDS Integers, Sequences, FiniteSets, TLC

\* ------------------------------------------------------------------ bounds
MaxBookings == 2      \* rows the bookings table may hold
MaxInFlight == 2      \* pending calls (sign-in/up, create, sign-out) at any one time
MaxPerForm  == 1      \* of which pending Login.onSubmit calls, and pending Book.submit calls
MaxLists    == 1      \* pending listUserBookings calls per user that are told apart
MaxHist     == 2      \* history length that is still counted

\* ------------------------------------------------------------------- values
NULL == "<null>"                      \* a null column / JS null in a string field
Users == {"u1", "u2"}                 \* identity ids the backend can assign
EmailOf == [u \in Users |-> IF u = "u1" THEN "a@x.io" ELSE "b@x.io"]
Emails == {EmailOf[u] : u \in Users}
IdOf(email) == CHOOSE u \in Users : EmailOf[u] = email
\* The Login form's name field: one visitor types a name, the other leaves it empty.
NameOf == [e \in Emails |-> IF e = "a@x.io" THEN "Ann" ELSE ""]
Unregistered == "<unregistered>"

\* The auth user carried by a session (id, email, user_metadata.name); no session.
NoSession == [id |-> "", email |-> "", name |-> ""]
\* User | null (App.tsx 6-10); null is the record with the empty id.
NoUser == [id |-> "", name |-> "", email |-> ""]
IsNull(u) == u.id = ""
NoProfile == [id |-> "", email |-> "", name |-> ""]

Dates == {"", "2024-06-01"}
Times == {"", "09:00", "09:00:00"}
\* Two sample settings of the service, duration, pets and notes fields.
Details == { [service |-> "Walk", durationMins |-> 30, pets |-> 1, notes |-> ""],
             [service |-> "Overnight", durationMins |-> 60, pets |-> 2, notes |-> "gate code"] }

Paths == {"/", "/login", "/book", "/profile", "/nowhere"}
Gated == {"/book", "/profile"}

RemoveAt(s, i) == [k \in 1..(Len(s) - 1) |-> IF k < i THEN s[k] ELSE s[k + 1]]
Push(h) == IF h < MaxHist THEN h + 1 ELSE h

\* ---------------------------------------------------------------- variables
VARIABLES
  accounts,    \* backend auth: Users -> the name given at sign-up, or Unregistered
  session,     \* the auth client's persisted session (survives a reload)
  profiles,    \* table profiles: Users -> row or NoProfile
  bookings,    \* table bookings: sequence of rows in insertion order
  path,        \* current location
  histLen,     \* number of history entries (counted up to MaxHist)
  user,        \* AuthProvider's state
  view,        \* what the matched route rendered in the last render pass
  phase,       \* "effects": the last render pass's effects have not run yet
  gs,          \* the initial getSession(): "pending" | "done"
  book,        \* Book's state: form fields, saving
  profile,     \* Profile's state: bookings, loading
  login,       \* Login's state: loading
  auths,       \* Login.onSubmit calls awaiting signIn / signUp / upsert
  creates,     \* Book.submit calls awaiting createBooking
  lists,       \* Users -> listUserBookings calls of the mounted Profile in flight
  signOuts,    \* signOut calls awaiting supabase.auth.signOut()
  op           \* the last step taken, for the steps that are told apart

\* Calls awaiting the backend.
Pending == Len(auths) + Len(creates) + signOuts

backend == <<accounts, session, profiles, bookings>>
vars == <<accounts, session, profiles, bookings, path, histLen, user, view, phase,
          gs, book, profile, login, auths, creates, lists, signOuts, op>>

\* --------------------------------------------------------- AuthProvider
\* App.tsx 50 and 54: session user -> User | null.
UserOf(s) ==
  IF IsNull(s) THEN NoUser
  ELSE [id |-> s.id, name |-> IF s.name = NULL THEN s.email ELSE s.name, email |-> s.email]

\* Variant: a getSession() that finds no session.
GetSessionDataNone == NoSession

\* App.tsx 48-49: the session getSession() resolves to.
GetSessionData == session

\* Variant: a subscriber that keeps the user when the session is gone.
OnAuthStateChangeIgnoresSignOut(sess) == IF IsNull(sess) THEN user ELSE UserOf(sess)

\* App.tsx 52-55: what the subscriber hands to setUser.
OnAuthStateChange(sess) == UserOf(sess)

\* The auth user of a registered id.
AuthUser(id) == [id |-> id, email |-> EmailOf[id], name |-> accounts[id]]

\* App.tsx 64: the row signUp upserts into profiles.
ProfileRow(u, name) == [id |-> u.id, email |-> u.email, name |-> name]

\* Variant: no row is written.
UpsertSkipped(table, row) == table

\* App.tsx 64: from("profiles").upsert(row).
Upsert(table, row) == [table EXCEPT ![row.id] = row]

\* ------------------------------------------------------- booking helpers
\* App.tsx 304: HH:MM from the time input becomes HH:MM:SS.
NormTime(t) == IF Len(t) = 5 THEN t \o ":00" ELSE t

\* Variant: !date && !time.
MissingFieldBoth(date, time) == date = "" /\ time = ""

\* App.tsx 297: !date || !time.
MissingField(date, time) == date = "" \/ time = ""

\* Variant: the notes are not passed on.
PayloadForgetsNotes(u, f) ==
  [user_id |-> u.id, service |-> f.service, date |-> f.date, time |-> NormTime(f.time),
   duration_mins |-> f.durationMins, pets |-> f.pets, notes |-> NULL]

\* Variant: the owner is not the current user's id.
PayloadFixedOwner(u, f) ==
  [user_id |-> "u1", service |-> f.service, date |-> f.date, time |-> NormTime(f.time),
   duration_mins |-> f.durationMins, pets |-> f.pets,
   notes |-> IF f.notes = "" THEN NULL ELSE f.notes]

\* App.tsx 300-308: the object Book.submit hands to createBooking.
Payload(u, f) ==
  [user_id |-> u.id, service |-> f.service, date |-> f.date, time |-> NormTime(f.time),
   duration_mins |-> f.durationMins, pets |-> f.pets,
   notes |-> IF f.notes = "" THEN NULL ELSE f.notes]

\* App.tsx 83: insert(data).select("*"); the table assigns id and created_at.
Insert(table, data) ==
  Append(table, data @@ [id |-> Len(table) + 1, created_at |-> Len(table) + 1])

RECURSIVE OrderByCreatedAt(_, _)
\* App.tsx 93: .order("created_at", { ascending }).
OrderByCreatedAt(s, ascending) ==
  IF s = <<>> THEN <<>>
  ELSE LET i == CHOOSE i \in 1..Len(s) : \A j \in 1..Len(s) :
                  IF ascending THEN s[i].created_at <= s[j].created_at
                               ELSE s[j].created_at <= s[i].created_at
       IN <<s[i]>> \o OrderByCreatedAt(RemoveAt(s, i), ascending)

\* Variant: ascending: true.
listUserBookingsAscending(table, userId) ==
  OrderByCreatedAt(SelectSeq(table, LAMBDA b : b.user_id = userId), TRUE)

\* App.tsx 88-96.
listUserBookings(table, userId) ==
  OrderByCreatedAt(SelectSeq(table, LAMBDA b : b.user_id = userId), FALSE)

\* ------------------------------------------------------------- rendering
\* App.tsx 292 and 374: Book and Profile return null without a user.
BookElement(u) == IF IsNull(u) THEN "BookNull" ELSE "Book"
ProfileElement(u) == IF IsNull(u) THEN "ProfileNull" ELSE "Profile"

\* Variant: the children are rendered whatever the user.
ProtectedRouteOpen(u, children) == children

\* App.tsx 415-419.
ProtectedRoute(u, children) == IF IsNull(u) THEN "NavigateLogin" ELSE children

\* App.tsx 428-437: the element of the route that matches p.
Routes(p, u) ==
  CASE p = "/" -> "Home"
    [] p = "/services" -> "Services"
    [] p = "/pricing" -> "Pricing"
    [] p = "/testimonials" -> "Testimonials"
    [] p = "/login" -> "Login"
    [] p = "/book" -> ProtectedRoute(u, BookElement(u))
    [] p = "/profile" -> ProtectedRoute(u, ProfileElement(u))
    [] OTHER -> "NavigateHome"

\* App.tsx 104-121 (NavBar), 136-137 (Home), 387 (Profile): the links on screen.
LinkTargets(u) ==
  {"/", "/services", "/pricing", "/testimonials", "/book"}
    \cup (IF IsNull(u) THEN {"/login"} ELSE {"/profile"})

\* useState initial values: App.tsx 282-289, 364-365, 220-221.
BookInit == [service |-> "Walk", date |-> "", time |-> "", durationMins |-> 30,
             pets |-> 1, notes |-> "", saving |-> FALSE]
ProfileInit == [bookings |-> <<>>, loading |-> TRUE]
LoginInit == [loading |-> FALSE]
NoLists == [u \in Users |-> 0]

Detach(reqs) == [i \in 1..Len(reqs) |-> [reqs[i] EXCEPT !.live = FALSE]]

\* ---------------------------------------------------------------- commit
Loc == [book |-> book, profile |-> profile, login |-> login]
Net == [auths |-> auths, creates |-> creates, lists |-> lists]

\* One render pass after a handler ran: the location p (history length h), the
\* provider's user u, the pages' states loc and the pending calls net as the
\* handler left them.  A page that is not rendered has no state (it starts from
\* its useState defaults when it mounts); the continuation of a call issued by
\* an unmounted page still runs but sets no state (live = FALSE); effects run
\* next when a page mounted or setUser was called with a new value (eff).
Commit(p, h, u, loc, net, eff) ==
  LET v == Routes(p, u) IN
  /\ path' = p
  /\ histLen' = h
  /\ user' = u
  /\ view' = v
  /\ book' = IF v = "Book" /\ view = "Book" THEN loc.book ELSE BookInit
  /\ profile' = IF v = "Profile" /\ view = "Profile" THEN loc.profile ELSE ProfileInit
  /\ login' = IF v = "Login" /\ view = "Login" THEN loc.login ELSE LoginInit
  /\ auths' = IF view = "Login" /\ v # "Login" THEN Detach(net.auths) ELSE net.auths
  /\ creates' = IF view = "Book" /\ v # "Book" THEN Detach(net.creates) ELSE net.creates
  /\ lists' = IF v = "Profile" /\ view = "Profile" THEN net.lists ELSE NoLists
  /\ phase' = IF eff \/ v # view THEN "effects" ELSE "idle"

\* ------------------------------------------------------------ navigation
\* A click on a <Link>.
Visit(p) ==
  /\ phase = "idle"
  /\ p \in LinkTargets(user) \cap Paths
  /\ Commit(p, Push(histLen), user, Loc, Net, FALSE)
  /\ op' = "step"
  /\ UNCHANGED <<backend, gs , signOuts>>

\* A page load (reload, or a URL entered in the address bar): the application
\* starts afresh; pending calls of the old page are abandoned.  App.tsx 45, 47-48.
Load(p) ==
  /\ phase = "idle"
  /\ p \in Paths
  /\ path' = p
  /\ histLen' = IF p = path THEN histLen ELSE Push(histLen)
  /\ user' = NoUser
  /\ view' = Routes(p, NoUser)
  /\ phase' = "effects"
  /\ gs' = "pending"
  /\ book' = BookInit /\ profile' = ProfileInit /\ login' = LoginInit
  /\ auths' = <<>> /\ creates' = <<>> /\ lists' = NoLists /\ signOuts' = 0
  /\ op' = "load"
  /\ UNCHANGED backend

\* The effects of the last render pass.  <Navigate replace> (App.tsx 417, 436),
\* Login (223), Book (291), Profile (367-372).
Effects ==
  /\ phase = "effects"
  /\ op' = "step"
  /\ UNCHANGED <<backend, gs , signOuts>>
  /\ CASE view = "NavigateLogin" -> Commit("/login", histLen, user, Loc, Net, FALSE)
       [] view = "NavigateHome" -> Commit("/", histLen, user, Loc, Net, FALSE)
       [] view = "Login" /\ ~IsNull(user) ->
            Commit("/profile", Push(histLen), user, Loc, Net, FALSE)
       [] view \in {"BookNull", "ProfileNull"} ->
            Commit("/login", Push(histLen), user, Loc, Net, FALSE)
       [] view = "Profile" /\ ~IsNull(user) ->
            Commit(path, histLen, user,
                   [Loc EXCEPT !.profile.loading = TRUE],
                   [Net EXCEPT !.lists[user.id] = IF @ < MaxLists THEN @ + 1 ELSE @],
                   FALSE)
       [] OTHER -> Commit(path, histLen, user, Loc, Net, FALSE)

\* ---------------------------------------------------------- AuthProvider
\* App.tsx 48-51: getSession() resolves and its callback sets the user.
GetSessionResolve ==
  /\ phase = "idle"
  /\ gs = "pending"
  /\ gs' = "done"
  /\ LET u == UserOf(GetSessionData) IN
       Commit(path, histLen, u, Loc, Net, ~(IsNull(u) /\ IsNull(user)))
  /\ op' = "getSession"
  /\ UNCHANGED <<backend , signOuts>>

\* App.tsx 52-55: the subscriber is called with the current session again
\* (INITIAL_SESSION, TOKEN_REFRESHED).
AuthStateChange ==
  /\ phase = "idle"
  /\ ~IsNull(session)
  /\ Commit(path, histLen, OnAuthStateChange(session), Loc, Net, TRUE)
  /\ op' = "step"
  /\ UNCHANGED <<backend, gs , signOuts>>

\* App.tsx 118: a click on "Log out", shown while there is a user; 73-74.
SignOutClick ==
  /\ phase = "idle"
  /\ ~IsNull(user)
  /\ Pending < MaxInFlight
  /\ signOuts' = signOuts + 1
  /\ op' = "step"
  /\ UNCHANGED <<backend, path, histLen, user, view, phase, gs, book,
                 profile, login, auths, creates, lists>>

\* supabase.auth.signOut() completes: the session is removed and the subscriber
\* (App.tsx 52-55) is called with no session.
SignOutComplete ==
  /\ phase = "idle"
  /\ signOuts > 0
  /\ signOuts' = signOuts - 1
  /\ session' = NoSession
  /\ Commit(path, histLen, OnAuthStateChange(NoSession), Loc, Net, ~IsNull(user))
  /\ op' = IF IsNull(session) THEN "signOutAgain" ELSE "signOut"
  /\ UNCHANGED <<accounts, profiles, bookings, gs >>

\* ------------------------------------------------------------------ Login
\* App.tsx 225-233: onSubmit up to the awaited signIn / signUp.
LoginSubmit(mode, email, name) ==
  /\ phase = "idle"
  /\ view = "Login"
  /\ ~login.loading
  /\ Pending < MaxInFlight /\ Len(auths) < MaxPerForm
  /\ login' = [loading |-> TRUE]
  /\ auths' = Append(auths, [mode |-> mode, email |-> email, name |-> name,
                             stage |-> "auth", live |-> TRUE])
  /\ op' = "step"
  /\ UNCHANGED <<backend, path, histLen, user, view, phase, gs, book,
                 profile, creates, lists, signOuts>>

\* App.tsx 238-240: finally of onSubmit.
LoginFinished(loc, r) ==
  IF r.live THEN [loc EXCEPT !.login.loading = FALSE] ELSE loc

\* App.tsx 68-71 and 231, 235: signInWithPassword completes; ok is the backend's
\* answer to the password (and its reachability).
SignInComplete(i, ok) ==
  /\ phase = "idle"
  /\ i \in 1..Len(auths)
  /\ auths[i].mode = "signin" /\ auths[i].stage = "auth"
  /\ LET r == auths[i]
         id == IdOf(r.email)
         net == [Net EXCEPT !.auths = RemoveAt(auths, i)]
     IN IF ok /\ accounts[id] # Unregistered
        THEN /\ session' = AuthUser(id)
             /\ Commit("/profile", Push(histLen), OnAuthStateChange(AuthUser(id)),
                       LoginFinished(Loc, r), net, TRUE)
             /\ op' = "step"
        ELSE /\ session' = session
             /\ Commit(path, histLen, user, LoginFinished(Loc, r), net, FALSE)
             /\ op' = "step"
  /\ UNCHANGED <<accounts, profiles, bookings, gs , signOuts>>

\* App.tsx 60-62: auth.signUp completes; on success the identity exists and is
\* signed in, and signUp goes on to the upsert.
SignUpAuthComplete(i, ok) ==
  /\ phase = "idle"
  /\ i \in 1..Len(auths)
  /\ auths[i].mode = "signup" /\ auths[i].stage = "auth"
  /\ LET r == auths[i]
         id == IdOf(r.email)
         u == [id |-> id, email |-> r.email, name |-> r.name]
     IN IF ok /\ accounts[id] = Unregistered
        THEN /\ accounts' = [accounts EXCEPT ![id] = r.name]
             /\ session' = u
             /\ Commit(path, histLen, OnAuthStateChange(u), Loc,
                       [Net EXCEPT !.auths[i].stage = "upsert"], TRUE)
             /\ op' = "step"
        ELSE /\ UNCHANGED <<accounts, session>>
             /\ Commit(path, histLen, user, LoginFinished(Loc, r),
                       [Net EXCEPT !.auths = RemoveAt(auths, i)], FALSE)
             /\ op' = "step"
  /\ UNCHANGED <<profiles, bookings, gs , signOuts>>

\* App.tsx 63-65 and 235, 239: the upsert completes (its result is not looked
\* at), signUp returns and onSubmit navigates.
SignUpUpsertComplete(i, ok) ==
  /\ phase = "idle"
  /\ i \in 1..Len(auths)
  /\ auths[i].mode = "signup" /\ auths[i].stage = "upsert"
  /\ LET r == auths[i]
         u == [id |-> IdOf(r.email), email |-> r.email, name |-> r.name]
     IN /\ profiles' = IF ok THEN Upsert(profiles, ProfileRow(u, r.name)) ELSE profiles
        /\ Commit("/profile", Push(histLen), user, LoginFinished(Loc, r),
                  [Net EXCEPT !.auths = RemoveAt(auths, i)], FALSE)
        /\ op' = IF ok THEN "signUp" ELSE "signUpNoProfile"
  /\ UNCHANGED <<accounts, session, bookings, gs , signOuts>>

\* ------------------------------------------------------------------- Book
\* App.tsx 333, 337: the date and time inputs.
SetDate(d) ==
  /\ phase = "idle" /\ view = "Book"
  /\ d \in Dates
  /\ book' = [book EXCEPT !.date = d]
  /\ op' = "step"
  /\ UNCHANGED <<backend, path, histLen, user, view, phase, gs , profile,
                 login, auths, creates, lists, signOuts>>

SetTime(t) ==
  /\ phase = "idle" /\ view = "Book"
  /\ t \in Times
  /\ book' = [book EXCEPT !.time = t]
  /\ op' = "step"
  /\ UNCHANGED <<backend, path, histLen, user, view, phase, gs , profile,
                 login, auths, creates, lists, signOuts>>

\* App.tsx 324, 343, 347, 352: the service, duration, pets and notes inputs.
SetDetails(d) ==
  /\ phase = "idle" /\ view = "Book"
  /\ d \in Details
  /\ book' = [book EXCEPT !.service = d.service, !.durationMins = d.durationMins,
                          !.pets = d.pets, !.notes = d.notes]
  /\ op' = "step"
  /\ UNCHANGED <<backend, path, histLen, user, view, phase, gs , profile,
                 login, auths, creates, lists, signOuts>>

\* App.tsx 294-308: submit up to the awaited createBooking; the button is
\* disabled while saving (355).
Submit ==
  /\ phase = "idle" /\ view = "Book"
  /\ ~book.saving
  /\ MissingField(book.date, book.time)
       \/ (Pending < MaxInFlight /\ Len(creates) < MaxPerForm)
  /\ IF MissingField(book.date, book.time)
     THEN /\ book' = book
          /\ creates' = creates
     ELSE /\ book' = [book EXCEPT !.saving = TRUE]
          /\ creates' = Append(creates, [data |-> Payload(user, book), form |-> book,
                                         live |-> TRUE])
  /\ op' = "submit"
  /\ UNCHANGED <<backend, path, histLen, user, view, phase, gs , profile,
                 login, auths, lists, signOuts>>

\* App.tsx 82-86 and 309-315: createBooking completes; on success the row is in
\* the table and submit navigates, on an error submit shows it.
CreateComplete(i, ok) ==
  /\ phase = "idle"
  /\ i \in 1..Len(creates)
  /\ ok => Len(bookings) < MaxBookings
  /\ LET r == creates[i]
         net == [Net EXCEPT !.creates = RemoveAt(creates, i)]
     IN IF ok
        THEN /\ bookings' = Insert(bookings, r.data)
             /\ Commit("/profile", Push(histLen), user,
                       IF r.live THEN [Loc EXCEPT !.book.saving = FALSE] ELSE Loc,
                       net, FALSE)
             /\ op' = "step"
        ELSE /\ bookings' = bookings
             /\ Commit(path, histLen, user,
                       IF r.live THEN [Loc EXCEPT !.book.saving = FALSE] ELSE Loc,
                       net, FALSE)
             /\ op' = "step"
  /\ UNCHANGED <<accounts, session, profiles, gs , signOuts>>

\* ---------------------------------------------------------------- Profile
\* App.tsx 371 and 88-96: a listUserBookings call of the mounted Profile
\* completes: .then(setBookings) on success, .finally(setLoading(false)) always.
ListComplete(u, ok) ==
  /\ phase = "idle" /\ view = "Profile"
  /\ u \in Users
  /\ lists[u] > 0
  /\ lists' = [lists EXCEPT ![u] = @ - 1]
  /\ profile' = [bookings |-> IF ok THEN listUserBookings(bookings, u)
                                    ELSE profile.bookings,
                 loading |-> FALSE]
  /\ op' = IF ok THEN "listOk" ELSE "step"
  /\ UNCHANGED <<backend, path, histLen, user, view, phase, gs, book,
                 login, auths, creates, signOuts>>

\* ------------------------------------------------------------ specification
\* The first page load, at "/", against an empty backend.
Init ==
  /\ accounts = [u \in Users |-> Unregistered]
  /\ session = NoSession
  /\ profiles = [u \in Users |-> NoProfile]
  /\ bookings = <<>>
  /\ path = "/"
  /\ histLen = 1
  /\ user = NoUser
  /\ view = Routes("/", NoUser)
  /\ phase = "effects"
  /\ gs = "pending"
  /\ book = BookInit /\ profile = ProfileInit /\ login = LoginInit
  /\ auths = <<>> /\ creates = <<>> /\ lists = NoLists /\ signOuts = 0
  /\ op = "load"

Next ==
  \/ \E p \in Paths : Visit(p)
  \/ \E p \in Paths : Load(p)
  \/ Effects
  \/ GetSessionResolve
  \/ AuthStateChange
  \/ SignOutClick
  \/ SignOutComplete
  \/ \E e \in Emails : LoginSubmit("signin", e, "")
  \/ \E e \in Emails : LoginSubmit("signup", e, NameOf[e])
  \/ \E i \in 1..MaxPerForm, ok \in BOOLEAN : SignInComplete(i, ok)
  \/ \E i \in 1..MaxPerForm, ok \in BOOLEAN : SignUpAuthComplete(i, ok)
  \/ \E i \in 1..MaxPerForm, ok \in BOOLEAN : SignUpUpsertComplete(i, ok)
  \/ \E d \in Dates : SetDate(d)
  \/ \E t \in Times : SetTime(t)
  \/ \E d \in Details : SetDetails(d)
  \/ Submit
  \/ \E i \in 1..MaxPerForm, ok \in BOOLEAN : CreateComplete(i, ok)
  \/ \E u \in Users, ok \in BOOLEAN : ListComplete(u, ok)

Spec == Init /\ [][Next]_vars

\* ------------------------------------------------------------------ claims
Rows(t) == {t[k] : k \in 1..Len(t)}

C2_RestoredBeforeRender ==
  /\ ~IsNull(session) => ~IsNull(user) /\ view # "NavigateLogin"
  /\ ~IsNull(user) => user.id = session.id /\ user.email = session.email

\* C3: a submit with the date or the time absent issues no createBooking, leaves
\* the bookings table as it is and does not enter the saving state.
C3_MissingFieldRejected ==
  [][op' = "submit" /\ (book.date = "" \/ book.time = "")
       => creates' = creates /\ bookings' = bookings /\ ~book'.saving]_vars

\* A submit with exactly one of date and time filled in was rejected.
C3_Witness ==
  /\ op = "submit" /\ view = "Book"
  /\ (book.date = "") # (book.time = "")
  /\ ~book.saving /\ creates = <<>>

\* C4: a create that succeeds makes the owner's list exactly one entry longer;
\* the new entry carries the submitted service, date, time (HH:MM completed to
\* HH:MM:SS), duration, pet count and notes (none when left empty), and an id
\* that no booking of the table had before.
C4_CreateThenList ==
  [][bookings' # bookings =>
      \E i \in 1..Len(creates) :
        LET r == creates[i]
            f == r.form
            owner == r.data.user_id
            before == listUserBookings(bookings, owner)
            after == listUserBookings(bookings', owner)
            new == {k \in 1..Len(after) : after[k] \notin Rows(before)}
        IN /\ Len(creates') = Len(creates) - 1
           /\ Len(after) = Len(before) + 1
           /\ Rows(before) \subseteq Rows(after)
           /\ Cardinality(new) = 1
           /\ \A k \in new :
                /\ after[k].user_id = owner
                /\ after[k].service = f.service
                /\ after[k].date = f.date
                /\ after[k].time = (IF Len(f.time) = 5 THEN f.time \o ":00" ELSE f.time)
                /\ after[k].duration_mins = f.durationMins
                /\ after[k].pets = f.pets
                /\ after[k].notes = (IF f.notes = "" THEN NULL ELSE f.notes)
                /\ \A b \in Rows(bookings) : b.id # after[k].id]_vars

\* The Profile page shows the two bookings one owner created, notes included.
C4_Witness ==
  /\ op = "listOk" /\ Len(profile.bookings) = 2
  /\ \E k \in 1..2 : profile.bookings[k].notes = "gate code"
  /\ \E k \in 1..2 : profile.bookings[k].notes = NULL

\* C5: for every owner, listUserBookings returns each booking of that owner once
\* and no other booking, the most recently created first, and the empty sequence
\* when the owner has none; a completed read shows exactly that sequence, so
\* reads with no create in between agree.
C5_ListByOwner ==
  /\ \A u \in Users :
       LET l == listUserBookings(bookings, u)
           own == {k \in 1..Len(bookings) : bookings[k].user_id = u}
       IN /\ Rows(l) = {bookings[k] : k \in own}
          /\ Len(l) = Cardinality(own)
          /\ \A k \in 1..(Len(l) - 1) : l[k].created_at > l[k + 1].created_at
          /\ own = {} => l = <<>>
  /\ op = "listOk" =>
       \E u \in Users :
         /\ \A k \in 1..Len(profile.bookings) : profile.bookings[k].user_id = u
         /\ Len(profile.bookings) = Cardinality({k \in 1..Len(bookings) : bookings[k].user_id = u})
         /\ \A k \in 1..(Len(profile.bookings) - 1) :
              profile.bookings[k].created_at > profile.bookings[k + 1].created_at

\* A read completed for an owner of two bookings while another owner has one.
C5_Witness ==
  /\ op = "listOk" /\ Len(profile.bookings) = 2
  /\ profile.bookings[1].created_at > profile.bookings[2].created_at

MirrorOf(r) == [id |-> IdOf(r.email), email |-> r.email, name |-> r.name]
SignUpReturns(i) ==
  /\ auths[i].stage = "upsert"
  /\ Detach(auths') = Detach(RemoveAt(auths, i))

\* C7 as stated: whenever signUp returns without an error the profiles table
\* holds the row mirroring the new identity.
C7_ProfileAlwaysProvisioned ==
  [][op' \in {"signUp", "signUpNoProfile"} =>
       \E i \in 1..Len(auths) :
         SignUpReturns(i) /\ profiles'[IdOf(auths[i].email)] = MirrorOf(auths[i])]_vars

\* C7 amended: when signUp returns and its upsert succeeded, the profiles table
\* holds the row mirroring the new identity; when the upsert failed signUp
\* returns all the same, the identity exists and the profiles table is as it was.
C7_ProfileProvisionedIfUpsertOk ==
  [][/\ op' = "signUp" =>
          \E i \in 1..Len(auths) :
            SignUpReturns(i) /\ profiles'[IdOf(auths[i].email)] = MirrorOf(auths[i])
     /\ op' = "signUpNoProfile" =>
          \E i \in 1..Len(auths) :
            /\ SignUpReturns(i)
            /\ accounts'[IdOf(auths[i].email)] # Unregistered
            /\ profiles' = profiles]_vars

\* signUp returned for the visitor who gave a name; the profile row is there.
C7_Witness ==
  op = "signUp" /\ profiles["u1"] = [id |-> "u1", email |-> "a@x.io", name |-> "Ann"]

\* C8: a createBooking or listUserBookings call is issued only while there is a
\* user, for that user's id; every pending create and every booking of the table
\* has a registered identity as owner.
C8_OwnedByIdentity ==
  /\ [](/\ \A b \in Rows(bookings) :
             b.user_id \in Users /\ accounts[b.user_id] # Unregistered
        /\ \A k \in 1..Len(creates) :
             creates[k].data.user_id \in Users
               /\ accounts[creates[k].data.user_id] # Unregistered)
  /\ [][/\ Len(creates') > Len(creates) =>
             /\ ~IsNull(user)
             /\ creates'[Len(creates')].data.user_id = user.id
             /\ session.id = user.id
        /\ \A u \in Users : lists'[u] > lists[u] => ~IsNull(user') /\ user'.id = u]_vars

\* The second identity has a create pending in its own name.
C8_Witness ==
  /\ Len(creates) = 1 /\ creates[1].data.user_id = "u2" /\ user.id = "u2"
  /\ bookings # <<>>

C10_DisplayedBelongToUser ==
  view = "Profile" /\ ~profile.loading =>
    \A k \in 1..Len(profile.bookings) : profile.bookings[k].user_id = user.id

====
